---- MODULE Spec2Model ----
(***************************************************************************)
(* The conversation state container of the ElectroMart customer console    *)
(* (the ChatInterface component), its transport client and the speech      *)
(* recognition device it drives.                                           *)
(*                                                                         *)
(* Text is a sequence of one-character strings, so that String.trim() is   *)
(* computed and not assumed.  The empty session id '' is 0 and uuidv4()    *)
(* hands out 1, 2, ... (a uuid never repeats).  error === null is the      *)
(* value ErrNull.                                                          *)
(***************************************************************************)
EXTENDS Integers, Sequences, FiniteSets, TLC

\* ------------------------------------------------------------------ bounds
\* accepted sends in one behaviour (each takes one tick of the clock)
MaxSends == 2
\* api.clearConversation calls in one behaviour that are in flight or resolved
MaxClears == 1

\* ------------------------------------------------------------------ text
WhiteSpace == {" ", "\n"}

RECURSIVE TrimStart(_)
TrimStart(s) ==
    IF s = <<>> THEN s
    ELSE IF Head(s) \in WhiteSpace THEN TrimStart(Tail(s)) ELSE s

RECURSIVE TrimEnd(_)
TrimEnd(s) ==
    IF s = <<>> THEN s
    ELSE IF s[Len(s)] \in WhiteSpace THEN TrimEnd(SubSeq(s, 1, Len(s) - 1)) ELSE s

\* String.prototype.trim
Trim(s) == TrimEnd(TrimStart(s))

\* Array.prototype.slice(0, -1): all but the last element, [] of []
SliceDropLast(s) == IF s = <<>> THEN <<>> ELSE SubSeq(s, 1, Len(s) - 1)

\* what the user can type into the textarea
TypedTexts == { <<" ">>, <<"a">>, <<" ", "b", "\n">> }
\* the example questions of the welcome screen (no surrounding white space)
ExampleTexts == { <<"a">> }
\* what the speech device can recognise
Transcripts == { <<"b">> }

\* ------------------------------------------------------------------ values
EmptySessionId == 0

ErrNull == "null"
ErrSend == "Failed to send message. Please try again."
ErrVoice == "Voice recognition error. Please try again."
ErrNoVoice == "Voice recognition is not supported in your browser. Please use Chrome, Edge, or Safari."
ErrVoiceStart == "Failed to start voice recognition. Please try again."

\* ChatResponse, as far as the container reads it.  suggestions?: string[]
\* is the pair hasSuggestions / suggestions.
ResponseTexts == { <<"r">>, <<"a">> }
ResponseAgents == { "sales" }
ResponseSuggestions ==
    { [has |-> FALSE, list |-> <<>>],
      [has |-> TRUE, list |-> <<>>],
      [has |-> TRUE, list |-> << <<"b">> >>] }
ServerTimestamps == { 0 }
\* ChatResponse.session_id: the server's, which need not be the client's
ServerSessionIds == { 99 }

ChatResponses ==
    { [response |-> t, timestamp |-> ts, agent_type |-> a,
       hasSuggestions |-> sg.has, suggestions |-> sg.list,
       session_id |-> sid] :
        t \in ResponseTexts, ts \in ServerTimestamps,
        a \in ResponseAgents, sg \in ResponseSuggestions,
        sid \in ServerSessionIds }

NoAgent == "undefined"

\* ------------------------------------------------------------------ state
VARIABLES
    mounted,        \* the mount effects have run
    speechSupported,\* window.SpeechRecognition exists in this browser
    messages, inputValue, isLoading, sessionId, error, suggestions,
    isRecording, recognition,
    pendingSends,   \* api.sendMessage calls awaiting their outcome
    pendingClears,  \* api.clearConversation calls awaiting their outcome
    device,         \* the speech recognition device
    clock,          \* new Date(): one tick per accepted send
    nextUuid,       \* the next value of uuidv4()
    ev,             \* the handler or callback that ran last
    rMessage,       \* the message prop of the ChatMessage being rendered
    rBadge,         \* the agent badge that ChatMessage rendered
    rDone           \* ChatMessage has rendered rMessage

\* the ChatMessage renderer
render == << rMessage, rBadge, rDone >>

\* the ChatInterface component and its environment
chat == << mounted, speechSupported, messages, inputValue, isLoading,
           sessionId, error, suggestions, isRecording, recognition,
           pendingSends, pendingClears, device, clock, nextUuid, ev >>

vars == << mounted, speechSupported, messages, inputValue, isLoading,
           sessionId, error, suggestions, isRecording, recognition,
           pendingSends, pendingClears, device, clock, nextUuid, ev,
           rMessage, rBadge, rDone >>

\* the React state of the component
container == << messages, inputValue, isLoading, sessionId, error,
                suggestions, isRecording, recognition >>

NoSend == [message |-> <<>>, session_id |-> EmptySessionId, timestamp |-> 0,
           pre |-> <<>>]
NoResponse == [response |-> <<>>, timestamp |-> 0, agent_type |-> NoAgent,
               hasSuggestions |-> FALSE, suggestions |-> <<>>,
               session_id |-> EmptySessionId]

\* ev: which handler ran, with the request it issued or completed
Event(op, send, resp, sid, text) ==
    [op |-> op, send |-> send, resp |-> resp, sid |-> sid, text |-> text]
Ev(op) == Event(op, NoSend, NoResponse, EmptySessionId, <<>>)

\* no ChatMessage is being rendered
NoMessage == [role |-> "none", content |-> <<>>, timestamp |-> 0,
              agent_type |-> NoAgent]
\* agentStyle === null: ChatMessage renders no badge
NoBadge == [shown |-> FALSE, icon |-> "none", className |-> "none",
            label |-> "none"]

RenderIdle ==
    /\ rMessage = NoMessage
    /\ rBadge = NoBadge
    /\ rDone = FALSE

ContainerInit ==
    /\ mounted = FALSE
    /\ speechSupported \in BOOLEAN
    /\ messages = <<>>
    /\ inputValue = <<>>
    /\ isLoading = FALSE
    /\ sessionId = EmptySessionId
    /\ error = ErrNull
    /\ suggestions = <<>>
    /\ isRecording = FALSE
    /\ recognition = FALSE
    /\ pendingSends = {}
    /\ pendingClears = <<>>
    /\ device = "idle"
    /\ clock = 1
    /\ nextUuid = 1
    /\ ev = Ev("init")

Init == ContainerInit /\ RenderIdle

\* ------------------------------------------------------------------ helpers
Range(s) == { s[i] : i \in 1..Len(s) }
RemoveAt(s, i) == SubSeq(s, 1, i - 1) \o SubSeq(s, i + 1, Len(s))

\* uuidv4()
Uuidv4 == nextUuid

\* the guard without the trim: if (!inputValue || isLoading) return
SendRejectedNoTrim(input, loading) == input = <<>> \/ loading
\* the guard without the loading test: if (!inputValue.trim()) return
SendRejectedNoLoading(input, loading) == Trim(input) = <<>>

\* the guard of handleSendMessage: TRUE when the handler returns at once
SendRejected(input, loading) == Trim(input) = <<>> \/ loading

\* the Message objects handleSendMessage builds
UserMsg(content, now) ==
    [role |-> "user", content |-> content, timestamp |-> now,
     agent_type |-> NoAgent]
AssistantMsg(response) ==
    [role |-> "assistant", content |-> response.response,
     timestamp |-> response.timestamp, agent_type |-> response.agent_type]

\* an append at the wrong end: [msg, ...prev]
AppendMsgFront(prev, msg) == <<msg>> \o prev

\* setMessages((prev) => [...prev, msg])
AppendMsg(prev, msg) == Append(prev, msg)
\* a catch block that forgets the rollback
RollbackNone(prev) == prev
\* a rollback that drops the oldest message: prev.slice(1)
RollbackFirst(prev) == IF prev = <<>> THEN <<>> ELSE Tail(prev)

\* setMessages((prev) => prev.slice(0, -1))
Rollback(prev) == SliceDropLast(prev)
\* a test that takes an empty list for none: if (response.suggestions?.length)
UpdateSuggestionsNonEmpty(prev, response) ==
    IF response.hasSuggestions /\ response.suggestions # <<>>
    THEN response.suggestions ELSE prev

\* if (response.suggestions) setSuggestions(response.suggestions)
\* (an empty array is truthy)
UpdateSuggestions(prev, response) ==
    IF response.hasSuggestions THEN response.suggestions ELSE prev
\* setIsLoading(false) at the end of the try block instead of in finally
LoadingClearedOnSuccessOnly(ok) == ~ok

\* finally { setIsLoading(false) }: ok tells whether the call resolved
LoadingAfterSend(ok) == FALSE

\* a mount effect that never calls setSessionId
MountSessionIdUnset == sessionId

\* the session init effect: setSessionId(uuidv4())
MountSessionId == Uuidv4

\* the session id handleClearChat installs
ClearedSessionId == Uuidv4

\* a catch block that shows the failure to the user
ErrorSurfacedAfterFailedClear(prev) == "Failed to clear chat."

\* error after a failed api.clearConversation: the catch block only logs
ErrorAfterFailedClear(prev) == prev

\* a handler that adds the suggestion to what is in the input field
InputAppendSuggestion(suggestion) == inputValue \o suggestion

\* handleSuggestionClick: setInputValue(suggestion)
InputAfterSuggestion(suggestion) == suggestion

\* ------------------------------------------------------------------ mount
\* The three useEffect(..., []) of the component: session id, focus,
\* speech recognition.  React runs them once after the first commit, before
\* the component handles any event that changes its state.
MountEffects ==
    /\ ~mounted
    /\ mounted' = TRUE
    /\ sessionId' = MountSessionId
    /\ nextUuid' = nextUuid + 1
    /\ recognition' = speechSupported
    /\ ev' = Ev("mount")
    /\ UNCHANGED << speechSupported, messages, inputValue, isLoading, error,
                    suggestions, isRecording, pendingSends, pendingClears,
                    device, clock, render >>

\* ------------------------------------------------------------------ input
\* textarea onChange; the textarea is disabled while loading or recording
onChange(text) ==
    /\ mounted
    /\ ~(isLoading \/ isRecording)
    /\ inputValue' = text
    /\ ev' = Event("onChange", NoSend, NoResponse, EmptySessionId, text)
    /\ UNCHANGED << mounted, speechSupported, messages, isLoading, sessionId,
                    error, suggestions, isRecording, recognition,
                    pendingSends, pendingClears, device, clock, nextUuid, render >>

\* an example button of the welcome screen, shown while there is no message
exampleClick(example) ==
    /\ mounted
    /\ Len(messages) = 0
    /\ inputValue' = example
    /\ ev' = Event("exampleClick", NoSend, NoResponse, EmptySessionId, example)
    /\ UNCHANGED << mounted, speechSupported, messages, isLoading, sessionId,
                    error, suggestions, isRecording, recognition,
                    pendingSends, pendingClears, device, clock, nextUuid, render >>

\* a suggestion chip; the chips are shown while not loading
handleSuggestionClick(suggestion) ==
    /\ mounted
    /\ Len(suggestions) > 0 /\ ~isLoading
    /\ suggestion \in Range(suggestions)
    /\ inputValue' = InputAfterSuggestion(suggestion)
    /\ ev' = Event("suggestionClick", NoSend, NoResponse, EmptySessionId,
                   suggestion)
    /\ UNCHANGED << mounted, speechSupported, messages, isLoading, sessionId,
                    error, suggestions, isRecording, recognition,
                    pendingSends, pendingClears, device, clock, nextUuid, render >>

\* ------------------------------------------------------------------ send
\* handleSendMessage up to its await (Enter in the textarea or the Send
\* button; the handler's own guard is what rejects a call).
handleSendMessage ==
    IF SendRejected(inputValue, isLoading)
    THEN /\ ev' = Ev("sendRejected")
         /\ UNCHANGED << mounted, speechSupported, messages, inputValue,
                         isLoading, sessionId, error, suggestions,
                         isRecording, recognition, pendingSends,
                         pendingClears, device, clock, nextUuid, render >>
    ELSE /\ clock <= MaxSends
         /\ LET userMessage == Trim(inputValue)
                userMsg == UserMsg(userMessage, clock)
                request == [message |-> userMessage, session_id |-> sessionId,
                            timestamp |-> clock, pre |-> messages]
            IN /\ inputValue' = <<>>
               /\ error' = ErrNull
               /\ messages' = AppendMsg(messages, userMsg)
               /\ isLoading' = TRUE
               /\ pendingSends' = pendingSends \cup {request}
               /\ ev' = Event("sendAccepted", request, NoResponse,
                              sessionId, inputValue)
         /\ clock' = clock + 1
         /\ UNCHANGED << mounted, speechSupported, sessionId, suggestions,
                         isRecording, recognition, pendingClears, device,
                         nextUuid, render >>

\* a try block that also takes over the session id of the response
sendResolvedAdoptsSession(request, response) ==
    /\ request \in pendingSends
    /\ pendingSends' = pendingSends \ {request}
    /\ messages' = AppendMsg(messages, AssistantMsg(response))
    /\ suggestions' = UpdateSuggestions(suggestions, response)
    /\ isLoading' = LoadingAfterSend(TRUE)
    /\ sessionId' = response.session_id
    /\ ev' = Event("sendResolved", request, response, request.session_id,
                   <<>>)
    /\ UNCHANGED << mounted, speechSupported, inputValue, error,
                    isRecording, recognition, pendingClears, device, clock,
                    nextUuid, render >>

\* api.sendMessage resolved: the rest of the try block, then finally
sendResolved(request, response) ==
    /\ request \in pendingSends
    /\ pendingSends' = pendingSends \ {request}
    /\ messages' = AppendMsg(messages, AssistantMsg(response))
    /\ suggestions' = UpdateSuggestions(suggestions, response)
    /\ isLoading' = LoadingAfterSend(TRUE)
    /\ ev' = Event("sendResolved", request, response, request.session_id,
                   <<>>)
    /\ UNCHANGED << mounted, speechSupported, inputValue, sessionId, error,
                    isRecording, recognition, pendingClears, device, clock,
                    nextUuid, render >>

\* a catch block that sends the request again instead of giving up
sendFailedRetries(request) ==
    /\ request \in pendingSends
    /\ pendingSends' = pendingSends
    /\ ev' = Event("sendFailed", request, NoResponse, request.session_id,
                   <<>>)
    /\ UNCHANGED << mounted, speechSupported, messages, inputValue, isLoading,
                    sessionId, error, suggestions, isRecording, recognition,
                    pendingClears, device, clock, nextUuid, render >>

\* api.sendMessage rejected (network error, HTTP error or the 30 s timeout):
\* the catch block, then finally
sendFailed(request) ==
    /\ request \in pendingSends
    /\ pendingSends' = pendingSends \ {request}
    /\ error' = ErrSend
    /\ messages' = Rollback(messages)
    /\ isLoading' = LoadingAfterSend(FALSE)
    /\ ev' = Event("sendFailed", request, NoResponse, request.session_id,
                   <<>>)
    /\ UNCHANGED << mounted, speechSupported, inputValue, sessionId,
                    suggestions, isRecording, recognition, pendingClears,
                    device, clock, nextUuid, render >>

\* ------------------------------------------------------------------ clear
\* handleClearChat up to its await; the Clear Chat button is never disabled
handleClearChat ==
    /\ Len(pendingClears) + nextUuid <= MaxClears + 1
    /\ IF sessionId # EmptySessionId
       THEN /\ pendingClears' = Append(pendingClears, sessionId)
            /\ ev' = Event("clearCalled", NoSend, NoResponse, sessionId, <<>>)
       ELSE /\ pendingClears' = pendingClears
            /\ ev' = Ev("clearSkipped")
    /\ UNCHANGED << mounted, speechSupported, messages, inputValue, isLoading,
                    sessionId, error, suggestions, isRecording, recognition,
                    pendingSends, device, clock, nextUuid, render >>

\* api.clearConversation resolved: the rest of the try block
clearResolved(i) ==
    /\ i \in 1..Len(pendingClears)
    /\ pendingClears' = RemoveAt(pendingClears, i)
    /\ messages' = <<>>
    /\ suggestions' = <<>>
    /\ error' = ErrNull
    /\ sessionId' = ClearedSessionId
    /\ nextUuid' = nextUuid + 1
    /\ ev' = Event("clearResolved", NoSend, NoResponse, pendingClears[i], <<>>)
    /\ UNCHANGED << mounted, speechSupported, inputValue, isLoading,
                    isRecording, recognition, pendingSends, device, clock, render >>

\* api.clearConversation rejected: the catch block logs and nothing else
clearFailed(i) ==
    /\ i \in 1..Len(pendingClears)
    /\ pendingClears' = RemoveAt(pendingClears, i)
    /\ error' = ErrorAfterFailedClear(error)
    /\ ev' = Event("clearFailed", NoSend, NoResponse, pendingClears[i], <<>>)
    /\ UNCHANGED << mounted, speechSupported, messages, inputValue, isLoading,
                    sessionId, suggestions, isRecording, recognition,
                    pendingSends, device, clock, nextUuid, render >>

\* ------------------------------------------------------------------ voice
\* The speech recognition device (continuous = false): idle, listening after
\* start(), stopping after stop(), ending once a result or an error has been
\* delivered and only onend is left.  start() throws unless the device is
\* idle; stop() on an idle device does nothing.
\* a stop branch that forgets recognition.stop()
DeviceAfterStopNoStop(d) == d

DeviceAfterStop(d) == IF d = "listening" THEN "stopping" ELSE d
StartThrows(d) == d # "idle"

\* handleVoiceInput; the microphone button is disabled while loading
handleVoiceInput ==
    /\ mounted
    /\ ~isLoading
    /\ IF ~recognition
       THEN /\ error' = ErrNoVoice
            /\ ev' = Ev("voiceUnsupported")
            /\ UNCHANGED << isRecording, device >>
       ELSE IF isRecording
       THEN /\ device' = DeviceAfterStop(device)
            /\ isRecording' = FALSE
            /\ ev' = Ev("voiceStop")
            /\ error' = error
       ELSE IF StartThrows(device)
       THEN /\ isRecording' = FALSE
            /\ error' = ErrVoiceStart
            /\ ev' = Ev("voiceStartFailed")
            /\ device' = device
       ELSE /\ error' = ErrNull
            /\ isRecording' = TRUE
            /\ device' = "listening"
            /\ ev' = Ev("voiceStart")
    /\ UNCHANGED << mounted, speechSupported, messages, inputValue, isLoading,
                    sessionId, suggestions, recognition, pendingSends,
                    pendingClears, clock, nextUuid, render >>

\* recognitionInstance.onresult
onresult(transcript) ==
    /\ device \in {"listening", "stopping"}
    /\ device' = "ending"
    /\ inputValue' = transcript
    /\ isRecording' = FALSE
    /\ ev' = Event("onresult", NoSend, NoResponse, EmptySessionId, transcript)
    /\ UNCHANGED << mounted, speechSupported, messages, isLoading, sessionId,
                    error, suggestions, recognition, pendingSends,
                    pendingClears, clock, nextUuid, render >>

\* recognitionInstance.onerror
onerror ==
    /\ device \in {"listening", "stopping"}
    /\ device' = "ending"
    /\ error' = ErrVoice
    /\ isRecording' = FALSE
    /\ ev' = Ev("onerror")
    /\ UNCHANGED << mounted, speechSupported, messages, inputValue, isLoading,
                    sessionId, suggestions, recognition, pendingSends,
                    pendingClears, clock, nextUuid, render >>

\* an onend callback that leaves the recording flag alone
onendKeepsRecording ==
    /\ device # "idle"
    /\ device' = "idle"
    /\ ev' = Ev("onend")
    /\ UNCHANGED << mounted, speechSupported, messages, inputValue, isLoading,
                    sessionId, error, suggestions, isRecording, recognition,
                    pendingSends, pendingClears, clock, nextUuid, render >>

\* recognitionInstance.onend
onend ==
    /\ device # "idle"
    /\ device' = "idle"
    /\ isRecording' = FALSE
    /\ ev' = Ev("onend")
    /\ UNCHANGED << mounted, speechSupported, messages, inputValue, isLoading,
                    sessionId, error, suggestions, recognition, pendingSends,
                    pendingClears, clock, nextUuid, render >>

\* ------------------------------------------------------------------ system
Next ==
    \/ MountEffects
    \/ \E text \in TypedTexts : onChange(text)
    \/ \E example \in ExampleTexts : exampleClick(example)
    \/ \E suggestion \in Range(suggestions) : handleSuggestionClick(suggestion)
    \/ handleSendMessage
    \/ \E request \in pendingSends, response \in ChatResponses :
          sendResolved(request, response)
    \/ \E request \in pendingSends : sendFailed(request)
    \/ handleClearChat
    \/ \E i \in 1..Len(pendingClears) : clearResolved(i)
    \/ \E i \in 1..Len(pendingClears) : clearFailed(i)
    \/ handleVoiceInput
    \/ \E transcript \in Transcripts : onresult(transcript)
    \/ onerror
    \/ onend

Spec == Init /\ [][Next]_vars

\* Every request of the transport client settles: axios resolves it or
\* rejects it, at the latest when its 30 s timeout expires.
Settle ==
    \/ \E request \in pendingSends, response \in ChatResponses :
          sendResolved(request, response)
    \/ \E request \in pendingSends : sendFailed(request)

LiveSpec == Spec /\ WF_vars(Settle)

TypeOK ==
    /\ mounted \in BOOLEAN
    /\ isLoading \in BOOLEAN
    /\ isRecording \in BOOLEAN
    /\ recognition \in BOOLEAN
    /\ sessionId \in 0..(MaxClears + 1)
    /\ device \in {"idle", "listening", "stopping", "ending"}
    /\ error \in {ErrNull, ErrSend, ErrVoice, ErrNoVoice, ErrVoiceStart}
    /\ Len(messages) <= 2 * MaxSends

\* ------------------------------------------------------------------ renderer
\* ChatMessage: the agent badge of one message.  Icons are written as their
\* code points.
agentStyles ==
    [sales |-> [icon |-> "U+1F6D2", className |-> "sales", label |-> "Sales"],
     marketing |->
        [icon |-> "U+1F3AF", className |-> "marketing", label |-> "Marketing"],
     technical_support |->
        [icon |-> "U+1F527", className |-> "technicalSupport",
         label |-> "Tech Support"],
     order_logistics |->
        [icon |-> "U+1F4E6", className |-> "orderLogistics", label |-> "Orders"],
     customer_service |->
        [icon |-> "U+1F4AC", className |-> "customerService",
         label |-> "Customer Service"],
     orchestrator |->
        [icon |-> "U+1F3AD", className |-> "orchestrator", label |-> "System"]]

\* agentStyles is an object literal: a property read that finds no own
\* property goes on to Object.prototype, whose members are functions (truthy)
\* that have no icon, className or label.
ObjectPrototypeKeys == {"constructor", "toString", "valueOf", "hasOwnProperty"}
InheritedMember ==
    [icon |-> "undefined", className |-> "undefined", label |-> "undefined"]

\* agentStyles[key] is not undefined
HasProperty(key) == key \in (DOMAIN agentStyles) \cup ObjectPrototypeKeys
\* agentStyles[key] where it is not undefined
GetProperty(key) ==
    IF key \in DOMAIN agentStyles THEN agentStyles[key] ELSE InheritedMember

\* agentStyles[agentType as AgentType] || agentStyles.customer_service
\* (an absent agent type reads the property "undefined")
getAgentStyle(agentType) ==
    IF HasProperty(agentType) THEN GetProperty(agentType)
    ELSE agentStyles.customer_service

\* const agentStyle = !isUser ? getAgentStyle(message.agent_type) : null,
\* and the badge shown when !isUser && agentStyle
Badge(message) ==
    IF message.role = "user" THEN NoBadge
    ELSE LET agentStyle == getAgentStyle(message.agent_type)
         IN [shown |-> TRUE, icon |-> agentStyle.icon,
             className |-> agentStyle.className, label |-> agentStyle.label]

\* the messages ChatMessage is given: every role, the six agent types, none,
\* and agent types the lookup table does not list
MessageRoles == {"user", "assistant", "system"}
KnownAgentTypes ==
    {"orchestrator", "sales", "marketing", "technical_support",
     "order_logistics", "customer_service"}
OtherAgentTypes == {"billing", "toString", "constructor"}
RenderContents == { <<"a">>, <<"r">> }
RenderMessages ==
    { [role |-> r, content |-> c, timestamp |-> 0, agent_type |-> a] :
        r \in MessageRoles, c \in RenderContents,
        a \in KnownAgentTypes \cup OtherAgentTypes \cup {NoAgent} }

\* ChatMessage renders its message prop
ChatMessageRender ==
    /\ ~rDone
    /\ rMessage # NoMessage
    /\ rBadge' = Badge(rMessage)
    /\ rDone' = TRUE
    /\ UNCHANGED << rMessage, chat >>

\* ChatMessage is given another message
ChatMessageProps(message) ==
    /\ rDone
    /\ rMessage' = message
    /\ rBadge' = NoBadge
    /\ rDone' = FALSE
    /\ UNCHANGED chat

RenderInit ==
    /\ ContainerInit
    /\ rMessage \in RenderMessages
    /\ rBadge = NoBadge
    /\ rDone = FALSE

RenderNext ==
    \/ ChatMessageRender
    \/ \E message \in RenderMessages : ChatMessageProps(message)

RenderSpec == RenderInit /\ [][RenderNext]_vars

\* ------------------------------------------------------------------ claims
\* white space only, or empty: said without trim
IsBlank(s) == \A i \in 1..Len(s) : s[i] \in WhiteSpace

\* the user message a request put into the list
OptimisticMsg(request) == UserMsg(request.message, request.timestamp)

\* handleSendMessage ran in this step
SendInvoked == ev'.op \in {"sendAccepted", "sendRejected"}

\* a clearConversation completed while this request was in flight
ClearedInFlight(request) == sessionId # request.session_id

\* C1: a send accepted while idle that succeeds ends with the message list
\* being the list before the send, then one user message with the trimmed
\* input, then one assistant message with the server's text.
C1_SuccessAppendsUserThenAssistant ==
    [][ev'.op = "sendResolved" =>
          messages' = ev'.send.pre \o
              << [role |-> "user", content |-> ev'.send.message,
                  timestamp |-> ev'.send.timestamp, agent_type |-> NoAgent],
                 [role |-> "assistant", content |-> ev'.resp.response,
                  timestamp |-> ev'.resp.timestamp,
                  agent_type |-> ev'.resp.agent_type] >>]_vars

\* C2 as stated: when a send fails, the list is as long as before the send
\* and the error is set, whatever ran while the send was in flight.
C2_FailureRestoresLength ==
    [][ev'.op = "sendFailed" =>
          /\ Len(messages') = Len(ev'.send.pre)
          /\ error' # ErrNull]_vars

\* C2 amended: when a send fails the error is set, and the list is as long
\* as before the send unless a clearConversation completed while the send
\* was in flight, in which case the list is empty.
C2_FailureRestoresLengthOrEmpty ==
    [][ev'.op = "sendFailed" =>
          /\ error' = ErrSend
          /\ Len(messages') =
                IF ClearedInFlight(ev'.send) THEN 0 ELSE Len(ev'.send.pre)]_vars

C2_Witness ==
    /\ ev.op = "sendFailed"
    /\ ClearedInFlight(ev.send)
    /\ ev.send.pre # <<>>
    /\ messages = <<>>
    /\ error = ErrSend

\* C3: handleSendMessage called with blank input, or while a send is in
\* flight, changes nothing of the container and issues no request.
C3_RejectedSendIsNoOp ==
    [][(SendInvoked /\ (IsBlank(inputValue) \/ isLoading \/ pendingSends # {}))
          => UNCHANGED << messages, inputValue, error, suggestions, isLoading,
                          sessionId, pendingSends >>]_vars

C3_Witness ==
    /\ ev.op = "sendRejected"
    /\ pendingSends # {}
    /\ ~IsBlank(inputValue)

\* C4: a clearConversation with a session id present ends, whether its
\* request resolved or was rejected, with no messages, no suggestions, no
\* error and another session id.
C4_ClearAlwaysResets ==
    [][ev'.op \in {"clearResolved", "clearFailed"} =>
          /\ messages' = <<>>
          /\ suggestions' = <<>>
          /\ error' = ErrNull
          /\ sessionId' \notin {sessionId, ev'.sid}]_vars

\* C5: at most one send is outstanding, isLoading is TRUE exactly while one
\* is, and only handleSendMessage and its completion change isLoading.
C5_OneSendAndLoadingFlag ==
    /\ [](Cardinality(pendingSends) <= 1 /\ (isLoading <=> pendingSends # {}))
    /\ [][isLoading' # isLoading =>
             ev'.op \in {"sendAccepted", "sendResolved", "sendFailed"}]_vars

C5_Witness ==
    /\ isLoading
    /\ Cardinality(pendingSends) = 1
    /\ ev.op \in {"clearResolved", "onresult", "sendRejected"}

\* C6: after a failed send the list holds no user message of that send, and
\* the rollback took away that user message or nothing.
C6_RollbackRemovesOnlyOwnMessage ==
    [][ev'.op = "sendFailed" =>
          /\ OptimisticMsg(ev'.send) \notin Range(messages')
          /\ \/ messages' = messages
             \/ messages = Append(messages', OptimisticMsg(ev'.send))]_vars

C6_Witness ==
    /\ ev.op = "sendFailed"
    /\ ~ClearedInFlight(ev.send)
    /\ Len(ev.send.pre) = 2
    /\ messages = ev.send.pre

\* C7: every request of handleSendMessage carries a session id that is not
\* the empty one of the first render.
C7_SendHasSessionId ==
    /\ \A request \in pendingSends : request.session_id # EmptySessionId
    /\ ev.op = "sendAccepted" => ev.sid # EmptySessionId

C7_Witness ==
    /\ ev.op = "sendAccepted"
    /\ \E request \in pendingSends : request.session_id = sessionId

\* C8: whenever isLoading is TRUE it is FALSE again later: the send settles
\* and both outcomes clear the flag.
C8_LoadingEventuallyCleared == isLoading ~> ~isLoading

C8_Witness ==
    /\ ev.op = "sendFailed"
    /\ ~isLoading
    /\ pendingSends = {}

\* C9: a rejected api.clearConversation leaves the error the user sees as it
\* was.
C9_FailedClearKeepsError ==
    [][ev'.op = "clearFailed" => error' = error]_vars

C9_Witness ==
    /\ ev.op = "clearFailed"
    /\ error = ErrSend
    /\ Len(messages) > 0

\* C10: a click on a suggestion puts exactly that suggestion into the input
\* field and neither sends nor changes anything else of the conversation.
C10_SuggestionOnlySetsInput ==
    [][ev'.op = "suggestionClick" =>
          /\ ev'.text \in Range(suggestions)
          /\ inputValue' = ev'.text
          /\ UNCHANGED << messages, isLoading, error, suggestions, sessionId,
                          pendingSends, pendingClears >>]_vars

C10_Witness ==
    /\ ev.op = "suggestionClick"
    /\ inputValue = ev.text
    /\ inputValue # <<>>
    /\ Len(messages) > 0

\* handleVoiceInput ran in this step
VoiceToggled ==
    ev'.op \in {"voiceUnsupported", "voiceStop", "voiceStartFailed", "voiceStart"}

\* C11 as stated: without a voice capability the toggle sets an error, leaves
\* the recording flag FALSE and the device alone; with one it starts capture
\* when the flag is FALSE, stops it when TRUE, and negates the flag.
C11_ToggleNegatesRecording ==
    [][VoiceToggled =>
          IF ~recognition
          THEN /\ error' # ErrNull
               /\ isRecording' = FALSE
               /\ device' = device
          ELSE /\ isRecording' = ~isRecording
               /\ isRecording => device' # "listening"
               /\ ~isRecording => device' = "listening"]_vars

\* C11 amended: as stated, except that when the flag is FALSE and starting
\* the capture throws (the device is still busy), the flag stays FALSE, the
\* start-failed error is set and no capture starts.
C11_ToggleNegatesUnlessStartThrows ==
    [][VoiceToggled =>
          IF ~recognition
          THEN /\ error' = ErrNoVoice
               /\ isRecording' = FALSE
               /\ device' = device
          ELSE IF isRecording
          THEN /\ isRecording' = FALSE
               /\ device' # "listening"
          ELSE IF device = "idle"
          THEN /\ isRecording' = TRUE
               /\ device' = "listening"
          ELSE /\ isRecording' = FALSE
               /\ error' = ErrVoiceStart
               /\ device' = device]_vars

C11_Witness ==
    /\ ev.op = "voiceStartFailed"
    /\ recognition
    /\ ~isRecording
    /\ error = ErrVoiceStart
    /\ device # "idle"

\* C12: after onresult, onerror and onend the recording flag is FALSE;
\* onresult puts the transcript into the input field, onerror sets the voice
\* error; none of them appends a message or issues a request.
C12_VoiceEventsClearRecording ==
    [][ev'.op \in {"onresult", "onerror", "onend"} =>
          /\ isRecording' = FALSE
          /\ ev'.op = "onresult" =>
                (ev'.text \in Transcripts /\ inputValue' = ev'.text)
          /\ ev'.op = "onerror" => error' = ErrVoice
          /\ UNCHANGED << messages, pendingSends, pendingClears >>]_vars

C12_Witness ==
    /\ ev.op = "onresult"
    /\ inputValue = ev.text
    /\ ev.text \in Transcripts
    /\ ~isRecording
    /\ device = "ending"

\* C13: an accepted handleSendMessage issues exactly one request and a
\* handleClearChat exactly one; no other step, a failure least of all,
\* issues a request.
C13_NoRetry ==
    [][/\ ev'.op = "sendAccepted" =>
             /\ ev'.send \notin pendingSends
             /\ pendingSends' = pendingSends \cup {ev'.send}
             /\ pendingClears' = pendingClears
       /\ ev'.op = "clearCalled" =>
             /\ pendingClears' = Append(pendingClears, ev'.sid)
             /\ pendingSends' = pendingSends
       /\ ev'.op = "sendFailed" =>
             /\ pendingSends' = pendingSends \ {ev'.send}
             /\ pendingClears' = pendingClears
       /\ ev'.op = "clearFailed" =>
             /\ Len(pendingClears') = Len(pendingClears) - 1
             /\ pendingSends' = pendingSends
       /\ ev'.op \notin {"sendAccepted", "clearCalled"} =>
             /\ pendingSends' \subseteq pendingSends
             /\ Len(pendingClears') <= Len(pendingClears)]_vars

C13_Witness ==
    /\ ev.op = "sendFailed"
    /\ pendingSends = {}
    /\ pendingClears = <<>>
    /\ error = ErrSend
    /\ ~isLoading

\* C15: the message list changes only by an append of one message at its
\* end, by the removal of its last message or by a reset to empty.
C15_MessagesAppendOnly ==
    [][messages' # messages =>
          \/ /\ Len(messages') = Len(messages) + 1
             /\ SubSeq(messages', 1, Len(messages)) = messages
          \/ /\ Len(messages) > 0
             /\ Len(messages') = Len(messages) - 1
             /\ SubSeq(messages, 1, Len(messages')) = messages'
          \/ messages' = <<>>]_vars

C15_Witness ==
    /\ ev.op = "sendFailed"
    /\ Len(messages) = 2
    /\ messages = ev.send.pre
    /\ messages[1].role = "user"
    /\ messages[2].role = "assistant"

\* C16: a send that completes after a clearConversation completed while it
\* was in flight adds no message to the list.
C16_StaleSendAddsNothing ==
    [][(ev'.op \in {"sendResolved", "sendFailed"} /\ ClearedInFlight(ev'.send))
          => messages' = messages]_vars

\* C17: the session id changes only in the mount effect and when a
\* clearConversation resolved, and a send request carries the session id
\* held when handleSendMessage was called.
C17_SessionIdChangesOnlyAtMountAndClear ==
    [][/\ sessionId' # sessionId => ev'.op \in {"mount", "clearResolved"}
       /\ ev'.op = "sendAccepted" =>
             /\ ev'.send.session_id = sessionId
             /\ ev'.send \in pendingSends']_vars

C17_Witness ==
    /\ ev.op = "sendResolved"
    /\ ev.resp.session_id # sessionId
    /\ ev.send.session_id = sessionId
    /\ sessionId # EmptySessionId

\* C18: a resolved send replaces the suggestions by those of the response
\* when it carries a list, an empty one included, and keeps them when it
\* carries none; a failed or rejected send keeps them.
C18_SuggestionsFollowResponse ==
    [][/\ ev'.op = "sendResolved" =>
             suggestions' = IF ev'.resp.hasSuggestions
                            THEN ev'.resp.suggestions ELSE suggestions
       /\ ev'.op \in {"sendFailed", "sendRejected"} =>
             suggestions' = suggestions]_vars

C18_Witness ==
    /\ ev.op = "sendResolved"
    /\ ev.resp.hasSuggestions
    /\ ev.resp.suggestions = <<>>
    /\ suggestions = <<>>
    /\ Len(messages) = 4

\* C14: a user message gets no badge; any other message gets, for each of
\* the six agent types, that type's icon and label, and for an absent or
\* unlisted agent type the customer service icon and label.
C14_AgentStyleLookup ==
    rDone =>
        IF rMessage.role = "user" THEN ~rBadge.shown
        ELSE /\ rBadge.shown
             /\ << rBadge.icon, rBadge.label >> =
                   CASE rMessage.agent_type = "sales" -> << "U+1F6D2", "Sales" >>
                     [] rMessage.agent_type = "marketing" ->
                            << "U+1F3AF", "Marketing" >>
                     [] rMessage.agent_type = "technical_support" ->
                            << "U+1F527", "Tech Support" >>
                     [] rMessage.agent_type = "order_logistics" ->
                            << "U+1F4E6", "Orders" >>
                     [] rMessage.agent_type = "orchestrator" ->
                            << "U+1F3AD", "System" >>
                     [] OTHER -> << "U+1F4AC", "Customer Service" >>
====
